---- MODULE Spec2Model ----
(***************************************************************************)
(* A model of the entity-component store of two (src/src/entity.h and      *)
(* src/src/entity.cpp): ComponentArray<T>, the World's entity registry,    *)
(* its component masks, its view cache with lazily applied diffs, and the  *)
(* destroy / collect_unused_entities id recycling.                         *)
(*                                                                         *)
(* Every C++ function is an operator from a world record to a world        *)
(* record; every action of Next is one call of a public operation. The     *)
(* build (with or without TWO_ASSERTIONS) shows only where an ASSERT       *)
(* fails: there a call has the outcome of either build.                    *)
(***************************************************************************)
EXTENDS Integers, Sequences, FiniteSets, TLC

(* ---------------------------------------------------------------- bounds *)

\* Capacity of entity_masks; ids are 0 .. TWO_ENTITY_MAX - 1 (entity.h:49 sets
\* 4096; the model scales it down).
TWO_ENTITY_MAX == 4

\* Width of EntityMask and length of World::components; type ids are
\* 0 .. TWO_COMPONENT_MAX - 1 (entity.h:54 sets 64; the model scales it down
\* to the two types of TypeNames).
TWO_COMPONENT_MAX == 2

\* Number of public calls in one behaviour.
MaxSteps == 5

\* Number of calls in one behaviour of the entity registry alone.
MaxIdSteps == 6

\* Number of calls in one behaviour with view_one.
MaxOneSteps == 6

\* Number of calls in one behaviour of the system list.
MaxSysSteps == 4

\* Number of calls in one behaviour with more than one world.
MaxWorldsSteps == 4

\* Number of calls in one behaviour that toggles memberships.
MaxToggleSteps == 5

\* Number of calls in one behaviour with copy_entity.
MaxCopySteps == 6

\* Number of calls in one behaviour of the event dispatcher.
MaxBusSteps == 4

\* Number of handlers bound to one event type.
MaxHandlers == 3

\* Number of frames of the main loop in one behaviour.
MaxFrames == 2

\* The event types the callers bind (main.cpp:31-33) and quit() emits.
EventTypes == {"KeyDown", "Quit"}

\* The callbacks bound: a std::function<bool(const T &)> is modelled by a
\* name and the value it returns.
Handlers == [name : {"key_down", "mouse_down"}, returns : BOOLEAN]

\* The system types the callers use (main.cpp, sprite.cpp, two.cpp).
SystemTypes == {"BackgroundRenderer", "SpriteRenderer", "FontRenderer"}

\* The component types the callers use: Active (entity.h:110) and the test
\* component C1 {int x, y, z} (entity_test.cpp).
TypeNames == {"Active", "C1"}

\* The values a component of a type can take: Active is an empty struct.
ValuesOf(T) == IF T = "C1" THEN {1, 2} ELSE {0}

\* The template argument lists view<Components...>() is called with.
ViewSets == {<< >>, <<"C1">>}

(* ------------------------------------------------------------- constants *)

NullEntity == 0

(* ----------------------------------------------------------------- state *)

VARIABLES
    component_type_index,   \* World::component_type_index
    alive_count,            \* World::alive_count
    unused_entities,        \* World::unused_entities (vector)
    destroyed_entities,     \* World::destroyed_entities (vector of records)
    entities,               \* World::entities (vector)
    view_cache,             \* World::view_cache: mask -> EntityCache
    components,             \* World::components: type id -> ComponentArray
    entity_masks,           \* World::entity_masks: id -> set of type ids
    component_types,        \* World::component_types: type name -> type id
    active_component_t,     \* the function-local static of each view<Cs...>
    active_systems,         \* World::active_systems (vector of System *)
    active_system_types,    \* World::active_system_types (vector)
    system_objects,         \* the System objects made by new, by pointer:
                            \* type, calls of load and unload, deleted
    aborted,                \* the process has aborted (std::abort) or crashed
    steps,                  \* number of calls made so far
    last_call,              \* the last call: its name, arguments and result
    one_seen,               \* the last view_one that returned an entity
                            \* which was not destroyed, deactivated or
                            \* stripped of a component since (<< >>: none)
    toggles,                \* for each cache and entity, the changes of
                            \* "the entity's mask satisfies the cache's
                            \* mask" since the cache was made or last
                            \* queried: a sequence of "Add" and "Remove"
    event_buses,            \* EventDispatcher::event_buses: event type ->
                            \* EventBus::handlers (vector)
    handler_calls,          \* the handlers the last emit called, in order
    running,                \* two.cpp: static bool running
    destroyed_world,        \* two.cpp: destroyed_world != nullptr
    pc,                     \* where the program is: before load_world, in
                            \* run() at the top of the loop or in the draw
                            \* loop, or after run()
    draw_index,             \* position of the range-for over systems()
    frame_trace,            \* the hooks and collects run() has called in
                            \* the current frame, in order
    frames                  \* number of frames run() has finished

vars == <<component_type_index, alive_count, unused_entities,
          destroyed_entities, entities, view_cache, components, entity_masks,
          component_types, active_component_t, active_systems,
          active_system_types, system_objects, aborted, steps,
          last_call, one_seen, toggles, event_buses, handler_calls, running,
          destroyed_world, pc, draw_index, frame_trace, frames>>

\* The variables of the World, and the state of the event dispatcher and of
\* the main loop.
worldvars == <<component_type_index, alive_count, unused_entities,
               destroyed_entities, entities, view_cache, components,
               entity_masks, component_types, active_component_t,
               active_systems, active_system_types, system_objects, aborted>>
busvars == <<event_buses, handler_calls>>
loopvars == <<running, destroyed_world, pc, draw_index, frame_trace, frames>>

\* The world as one record, so that a C++ function is an operator on it.
World ==
    [component_type_index |-> component_type_index,
     alive_count          |-> alive_count,
     unused_entities      |-> unused_entities,
     destroyed_entities   |-> destroyed_entities,
     entities             |-> entities,
     view_cache           |-> view_cache,
     components           |-> components,
     entity_masks         |-> entity_masks,
     component_types      |-> component_types,
     active_component_t   |-> active_component_t,
     active_systems       |-> active_systems,
     active_system_types  |-> active_system_types,
     system_objects       |-> system_objects,
     aborted              |-> aborted]

(* ---------------------------------------------------- containers (std::) *)

EmptyMap == [x \in {} |-> x]

\* m[k] = v of std::unordered_map / std::array.
MapPut(m, k, v) == [x \in (DOMAIN m) \cup {k} |-> IF x = k THEN v ELSE m[x]]

\* m.erase(k)
MapErase(m, k) == [x \in (DOMAIN m) \ {k} |-> m[x]]

\* std::find on a vector: the 1-based position of the first x, 0 for end().
IndexOf(s, x) ==
    IF \E i \in 1..Len(s) : s[i] = x
    THEN CHOOSE i \in 1..Len(s) : s[i] = x /\ \A j \in 1..(i - 1) : s[j] # x
    ELSE 0

\* std::swap(*rem, vec.back()); vec.pop_back();
SwapRemove(s, i) ==
    [j \in 1..(Len(s) - 1) |-> IF j = i THEN s[Len(s)] ELSE s[j]]

Range(s) == {s[i] : i \in 1..Len(s)}

\* vec.insert(vec.begin() + index, x), index counted from 0.
InsertAt(s, index, x) ==
    SubSeq(s, 1, index) \o <<x>> \o SubSeq(s, index + 1, Len(s))

\* vec.erase(vec.begin() + index), index counted from 0.
EraseAt(s, index) ==
    SubSeq(s, 1, index) \o SubSeq(s, index + 2, Len(s))

(* -------------------------------------------------------------- EventBus *)

\* EventBus<T>::bind
EventBusBind(handlers, callback) == Append(handlers, callback)

\* The loop of EventBus<T>::emit from handler i on: the handlers called.
RECURSIVE EventBusEmitFrom(_, _, _)
EventBusEmitFrom(handlers, i, calls) ==
    IF i > Len(handlers)
    THEN calls
    ELSE IF handlers[i].returns
         THEN Append(calls, handlers[i])
         ELSE EventBusEmitFrom(handlers, i + 1, Append(calls, handlers[i]))

\* EventBus<T>::emit without the break.
EventBusEmit_NoBreak(handlers) == handlers

\* EventBus<T>::emit: the handlers called, in the order of the calls.
EventBusEmit(handlers) == EventBusEmitFrom(handlers, 1, << >>)

\* EventDispatcher::bind<T>(callback)
DispatcherBind(buses, T, callback) ==
    IF T \notin DOMAIN buses
    THEN MapPut(buses, T, EventBusBind(<< >>, callback))
    ELSE MapPut(buses, T, EventBusBind(buses[T], callback))

\* EventDispatcher::emit<T>(event): the handlers called.
DispatcherEmit(buses, T) ==
    IF T \notin DOMAIN buses THEN << >> ELSE EventBusEmit(buses[T])

\* EventDispatcher::clear
DispatcherClear(buses) == EmptyMap

(* -------------------------------------------------------- ComponentArray *)

EmptyArray ==
    [packed_array     |-> << >>,
     entity_to_packed |-> EmptyMap,
     packed_to_entity |-> EmptyMap,
     packed_count     |-> 0]

ArrayContains(a, entity) == entity \in DOMAIN a.entity_to_packed

\* ComponentArray<T>::read; slot p of the vector is packed_array[p + 1].
ArrayRead(a, entity) == a.packed_array[a.entity_to_packed[entity] + 1]

\* ComponentArray<T>::write
ArrayWrite(a, entity, component) ==
    IF entity \in DOMAIN a.entity_to_packed
    THEN [a EXCEPT !.packed_array[a.entity_to_packed[entity] + 1] = component]
    ELSE LET pos == a.packed_count IN
         [packed_count     |-> pos + 1,
          entity_to_packed |-> MapPut(a.entity_to_packed, entity, pos),
          packed_to_entity |-> MapPut(a.packed_to_entity, pos, entity),
          packed_array     |->
              IF pos < Len(a.packed_array)
              THEN [a.packed_array EXCEPT ![pos + 1] = component]
              ELSE Append(a.packed_array, component)]

\* ArrayRemove without entity_to_packed[moved_entity] = removed.
ArrayRemove_NoRemap(a, entity) ==
    IF entity \notin DOMAIN a.entity_to_packed
    THEN a
    ELSE LET last         == a.packed_count - 1
             removed      == a.entity_to_packed[entity]
             arr          == [a.packed_array EXCEPT
                                 ![removed + 1] = a.packed_array[last + 1]]
             moved_entity == a.packed_to_entity[last]
             p2e          == MapPut(a.packed_to_entity, removed, moved_entity)
         IN [packed_array     |-> arr,
             entity_to_packed |-> MapErase(a.entity_to_packed, entity),
             packed_to_entity |-> MapErase(p2e, last),
             packed_count     |-> last]

\* ArrayRemove without packed_array[removed] = packed_array[last].
ArrayRemove_NoMove(a, entity) ==
    IF entity \notin DOMAIN a.entity_to_packed
    THEN a
    ELSE LET last         == a.packed_count - 1
             removed      == a.entity_to_packed[entity]
             moved_entity == a.packed_to_entity[last]
             p2e          == MapPut(a.packed_to_entity, removed, moved_entity)
             e2p          == MapPut(a.entity_to_packed, moved_entity, removed)
         IN [packed_array     |-> a.packed_array,
             entity_to_packed |-> MapErase(e2p, entity),
             packed_to_entity |-> MapErase(p2e, last),
             packed_count     |-> last]

\* ArrayRemove that returns early only for an empty array: for an entity
\* without a slot, entity_to_packed[entity] default-inserts slot 0.
ArrayRemove_NoCheck(a, entity) ==
    IF a.packed_count = 0
    THEN a
    ELSE LET last         == a.packed_count - 1
             removed      == IF entity \in DOMAIN a.entity_to_packed
                             THEN a.entity_to_packed[entity] ELSE 0
             arr          == [a.packed_array EXCEPT
                                 ![removed + 1] = a.packed_array[last + 1]]
             moved_entity == a.packed_to_entity[last]
             p2e          == MapPut(a.packed_to_entity, removed, moved_entity)
             e2p          == MapPut(a.entity_to_packed, moved_entity, removed)
         IN [packed_array     |-> arr,
             entity_to_packed |-> MapErase(e2p, entity),
             packed_to_entity |-> MapErase(p2e, last),
             packed_count     |-> last]

\* ComponentArray<T>::remove
ArrayRemove(a, entity) ==
    IF entity \notin DOMAIN a.entity_to_packed
    THEN a
    ELSE LET last         == a.packed_count - 1
             removed      == a.entity_to_packed[entity]
             arr          == [a.packed_array EXCEPT
                                 ![removed + 1] = a.packed_array[last + 1]]
             moved_entity == a.packed_to_entity[last]
             p2e          == MapPut(a.packed_to_entity, removed, moved_entity)
             e2p          == MapPut(a.entity_to_packed, moved_entity, removed)
         IN [packed_array     |-> arr,
             entity_to_packed |-> MapErase(e2p, entity),
             packed_to_entity |-> MapErase(p2e, last),
             packed_count     |-> last]

\* ComponentArray<T>::copy
ArrayCopy(a, dst, src) == ArrayWrite(a, dst, ArrayRead(a, src))

(* ------------------------------------------------- component registry *)

\* World::register_component, for a type that is not registered (its ASSERT).
\* Nothing compares component_type_index with TWO_COMPONENT_MAX: at the limit
\* the store is written to components[TWO_COMPONENT_MAX], past the array.
RegisterComponent(w, T) ==
    LET i == w.component_type_index IN
    [w EXCEPT !.component_type_index = i + 1,
              !.component_types      = MapPut(w.component_types, T, i),
              !.components           = MapPut(w.components, i, EmptyArray)]

\* World::find_or_register_component; the id is component_types[T] of the result.
FindOrRegisterComponent(w, T) ==
    IF T \in DOMAIN w.component_types THEN w ELSE RegisterComponent(w, T)

\* World::has_component
HasComponent(w, entity, T) ==
    IF T \notin DOMAIN w.component_types
    THEN FALSE
    ELSE ArrayContains(w.components[w.component_types[T]], entity)

\* HasComponentCall with the type looked up as pack and view do, by
\* find_or_register_component.
HasComponentCall_Registers(w, entity, T) ==
    LET w1 == FindOrRegisterComponent(w, T) IN
    [w |-> w1,
     result |-> ArrayContains(w1.components[w1.component_types[T]], entity)]

\* A call of World::has_component: [w, result], the world after it and the
\* value returned.
HasComponentCall(w, entity, T) ==
    [w |-> w, result |-> HasComponent(w, entity, T)]

\* World::unpack
Unpack(w, entity, T) ==
    ArrayRead(w.components[w.component_types[T]], entity)

(* ----------------------------------------------------------- view cache *)

Diff(entity, op) == [entity |-> entity, op |-> op]

\* World::invalidate_cache without the search for a repeat.
InvalidateCache_NoDedup(cache, diff) ==
    [cache EXCEPT !.diffs = Append(cache.diffs, diff)]

\* World::invalidate_cache
InvalidateCache(cache, diff) ==
    IF \E i \in 1..Len(cache.diffs) : cache.diffs[i] = diff
    THEN cache
    ELSE [cache EXCEPT !.diffs = Append(cache.diffs, diff)]

\* One iteration of the loop of World::apply_diffs_to_cache on the record
\* [cache, aborted]; assertions is the build (TRUE when TWO_ASSERTIONS is
\* defined). A Remove of an entity that is not in the list fails
\* ASSERT(rem != vec.end()): a build with assertions aborts; a build without
\* them swaps *end() with back() and pops, which drops the last element of a
\* non-empty list and is a crash on an empty one.
ApplyDiff(r, diff, assertions) ==
    IF r.aborted THEN r
    ELSE IF diff.op = "Add"
    THEN [r EXCEPT !.cache.entities = Append(r.cache.entities, diff.entity),
                   !.cache.lookup   = r.cache.lookup \cup {diff.entity}]
    ELSE LET vec == r.cache.entities
             rem == IndexOf(vec, diff.entity)
         IN IF rem # 0
            THEN [r EXCEPT !.cache.entities = SwapRemove(vec, rem),
                           !.cache.lookup   = r.cache.lookup \ {diff.entity}]
            ELSE IF assertions \/ vec = << >>
            THEN [r EXCEPT !.aborted = TRUE]
            ELSE [r EXCEPT !.cache.entities = SubSeq(vec, 1, Len(vec) - 1),
                           !.cache.lookup   = r.cache.lookup \ {diff.entity}]

RECURSIVE ApplyDiffsFrom(_, _, _, _)
ApplyDiffsFrom(r, diffs, i, assertions) ==
    IF i > Len(diffs) THEN r
    ELSE ApplyDiffsFrom(ApplyDiff(r, diffs[i], assertions), diffs, i + 1,
                        assertions)

\* World::apply_diffs_to_cache: [cache, aborted]; the queue is cleared at the
\* end unless the process aborted inside the loop.
ApplyDiffsToCache(cache, assertions) ==
    LET r == ApplyDiffsFrom([cache |-> cache, aborted |-> FALSE], cache.diffs,
                            1, assertions)
    IN IF r.aborted THEN r ELSE [r EXCEPT !.cache.diffs = << >>]

(* ------------------------------------------------- components of entities *)

\* mask.set(type) of a std::bitset
\* (PackMask_Flip: flip(type) in its place.)
PackMask_Flip(mask, type) ==
    IF type \in mask THEN mask \ {type} ELSE mask \cup {type}

PackMask(mask, type) == mask \cup {type}

\* World::pack. std::bitset::set(pos) throws std::out_of_range for a pos
\* outside the mask; nothing catches it (the build is -fno-exceptions) and
\* the process terminates.
Pack(w, entity, T, component) ==
    LET current_mask == w.entity_masks[entity]
        w1   == FindOrRegisterComponent(w, T)
        type == w1.component_types[T]
        mask == PackMask(current_mask, type)
        w2   == [w1 EXCEPT !.entity_masks[entity] = mask,
                           !.components[type] =
                               ArrayWrite(w1.components[type], entity, component)]
    IN IF ~(type < TWO_COMPONENT_MAX)
       THEN [w1 EXCEPT !.aborted = TRUE]
       ELSE IF (type \in current_mask) = (type \in mask)
       THEN w2
       ELSE [w2 EXCEPT !.view_cache =
                [k \in DOMAIN w2.view_cache |->
                    IF k \subseteq mask /\ entity \notin w2.view_cache[k].lookup
                    THEN InvalidateCache(w2.view_cache[k], Diff(entity, "Add"))
                    ELSE w2.view_cache[k]]]

\* RemoveComponent without entity_masks[entity].reset(type).
RemoveComponent_KeepsBit(w, entity, T) ==
    LET type == w.component_types[T] IN
    [w EXCEPT !.components[type] = ArrayRemove(w.components[type], entity),
              !.view_cache =
                [k \in DOMAIN w.view_cache |->
                    IF type \in k /\ entity \in w.view_cache[k].lookup
                    THEN InvalidateCache(w.view_cache[k], Diff(entity, "Remove"))
                    ELSE w.view_cache[k]]]

\* World::remove_component taking the entity out of the caches at once.
RemoveComponent_Eager(w, entity, T) ==
    LET type == w.component_types[T] IN
    [w EXCEPT !.components[type] = ArrayRemove(w.components[type], entity),
              !.view_cache =
                [k \in DOMAIN w.view_cache |->
                    IF type \in k /\ entity \in w.view_cache[k].lookup
                    THEN [w.view_cache[k] EXCEPT
                            !.entities = SwapRemove(@, IndexOf(@, entity)),
                            !.lookup   = @ \ {entity}]
                    ELSE w.view_cache[k]],
              !.entity_masks[entity] = w.entity_masks[entity] \ {type}]

\* World::remove_component, for a registered type T.
RemoveComponent(w, entity, T) ==
    LET type == w.component_types[T] IN
    [w EXCEPT !.components[type] = ArrayRemove(w.components[type], entity),
              !.view_cache =
                [k \in DOMAIN w.view_cache |->
                    IF type \in k /\ entity \in w.view_cache[k].lookup
                    THEN InvalidateCache(w.view_cache[k], Diff(entity, "Remove"))
                    ELSE w.view_cache[k]],
              !.entity_masks[entity] = w.entity_masks[entity] \ {type}]

\* World::set_active; with active = FALSE the type Active must be registered.
SetActive(w, entity, active) ==
    IF active THEN Pack(w, entity, "Active", 0)
    ELSE RemoveComponent(w, entity, "Active")

RECURSIVE RegisterAll(_, _, _)
RegisterAll(w, Cs, i) ==
    IF i > Len(Cs) THEN w
    ELSE RegisterAll(FindOrRegisterComponent(w, Cs[i]), Cs, i + 1)

\* The entities of World::entities, in order, whose mask includes mask.
RECURSIVE Matching(_, _, _)
Matching(w, mask, i) ==
    IF i > Len(w.entities) THEN << >>
    ELSE IF mask \subseteq w.entity_masks[w.entities[i]]
         THEN <<w.entities[i]>> \o Matching(w, mask, i + 1)
         ELSE Matching(w, mask, i + 1)

\* World::view<Cs...>(include_inactive) in a build with or without
\* assertions: [w, result]. The static active_component_t of the
\* instantiation is set by its first call. mask.set(pos) terminates the
\* process for a pos outside the mask, as in pack.
View(w, Cs, include_inactive, assertions) ==
    LET first == Cs \notin DOMAIN w.active_component_t
        w0    == IF first THEN FindOrRegisterComponent(w, "Active") ELSE w
        act   == IF first THEN w0.component_types["Active"]
                          ELSE w.active_component_t[Cs]
        w1    == [RegisterAll(w0, Cs, 1) EXCEPT
                     !.active_component_t = MapPut(w0.active_component_t, Cs, act)]
        mask  == {w1.component_types[Cs[i]] : i \in 1..Len(Cs)}
                 \cup (IF include_inactive THEN {} ELSE {act})
    IN IF \E type \in mask : ~(type < TWO_COMPONENT_MAX)
       THEN [w |-> [w1 EXCEPT !.aborted = TRUE], result |-> << >>]
       ELSE IF mask \in DOMAIN w1.view_cache
       THEN LET cache == w1.view_cache[mask] IN
            IF cache.diffs = << >>
            THEN [w |-> w1, result |-> cache.entities]
            ELSE LET r == ApplyDiffsToCache(cache, assertions) IN
                 [w |-> [w1 EXCEPT !.view_cache[mask] = r.cache,
                                   !.aborted = r.aborted],
                  result |-> r.cache.entities]
       ELSE LET cache == Matching(w1, mask, 1) IN
            [w |-> [w1 EXCEPT !.view_cache =
                        MapPut(w1.view_cache, mask,
                               [entities |-> cache, diffs |-> << >>,
                                lookup |-> Range(cache)])],
             result |-> cache]

\* World::view_one in a build with or without assertions: [w, result], the
\* Optional as a sequence of no or one entity.
ViewOne(w, Cs, include_inactive, assertions) ==
    LET v == View(w, Cs, include_inactive, assertions) IN
    [w |-> v.w,
     result |-> IF Len(v.result) > 0 THEN <<v.result[1]>> ELSE << >>]

(* ------------------------------------------------------ entity registry *)

\* World::make_inactive_entity without unused_entities.pop_back().
MakeInactiveEntity_NoPop(w) ==
    IF w.unused_entities = << >>
    THEN IF ~(w.alive_count < TWO_ENTITY_MAX)
         THEN [w |-> [w EXCEPT !.aborted = TRUE], entity |-> NullEntity]
         ELSE LET isnull == (w.alive_count = NullEntity)
                  entity == IF isnull THEN w.alive_count + 1 ELSE w.alive_count
                  ents   == IF isnull THEN Append(w.entities, NullEntity)
                                      ELSE w.entities
                  count  == IF isnull THEN w.alive_count + 1 ELSE w.alive_count
              IN [w |-> [w EXCEPT !.entities    = Append(ents, entity),
                                  !.alive_count = count + 1],
                  entity |-> entity]
    ELSE LET n      == Len(w.unused_entities)
             entity == w.unused_entities[n]
         IN [w |-> [w EXCEPT !.entities    = Append(w.entities, entity),
                             !.alive_count = w.alive_count + 1],
             entity |-> entity]

\* World::make_inactive_entity: [w, entity]. With the free pool empty and
\* alive_count at the capacity, ASSERTS(alive_count < TWO_ENTITY_MAX) aborts a
\* build with assertions; without them the id is outside entity_masks and its
\* first use is out of bounds: the model stops there too.
MakeInactiveEntity(w) ==
    IF w.unused_entities = << >>
    THEN IF ~(w.alive_count < TWO_ENTITY_MAX)
         THEN [w |-> [w EXCEPT !.aborted = TRUE], entity |-> NullEntity]
         ELSE LET isnull == (w.alive_count = NullEntity)
                  entity == IF isnull THEN w.alive_count + 1 ELSE w.alive_count
                  ents   == IF isnull THEN Append(w.entities, NullEntity)
                                      ELSE w.entities
                  count  == IF isnull THEN w.alive_count + 1 ELSE w.alive_count
              IN [w |-> [w EXCEPT !.entities    = Append(ents, entity),
                                  !.alive_count = count + 1],
                  entity |-> entity]
    ELSE LET n      == Len(w.unused_entities)
             entity == w.unused_entities[n]
         IN [w |-> [w EXCEPT !.unused_entities = SubSeq(w.unused_entities, 1, n - 1),
                             !.entities        = Append(w.entities, entity),
                             !.alive_count     = w.alive_count + 1],
             entity |-> entity]

\* World::make_entity()
MakeEntity(w) ==
    LET m == MakeInactiveEntity(w) IN
    IF m.w.aborted THEN m
    ELSE [w |-> Pack(m.w, m.entity, "Active", 0), entity |-> m.entity]

\* World::copy_entity
CopyEntity(w, dst, src) ==
    LET types    == {w.component_types[T] : T \in DOMAIN w.component_types}
                    \cap w.entity_masks[src]
        comps    == [t \in DOMAIN w.components |->
                        IF t \in types
                        THEN ArrayCopy(w.components[t], dst, src)
                        ELSE w.components[t]]
        dst_mask == w.entity_masks[dst] \cup types
    IN [w EXCEPT !.components = comps,
                 !.entity_masks[dst] = dst_mask,
                 !.view_cache =
                    [k \in DOMAIN w.view_cache |->
                        IF k \subseteq dst_mask /\ dst \notin w.view_cache[k].lookup
                        THEN InvalidateCache(w.view_cache[k], Diff(dst, "Add"))
                        ELSE w.view_cache[k]]]

\* World::make_entity(Entity prefab)
MakeEntityPrefab(w, prefab) ==
    LET m == MakeEntity(w) IN
    IF m.w.aborted THEN m
    ELSE [w |-> CopyEntity(m.w, m.entity, prefab), entity |-> m.entity]

\* World::destroy_entity without entity_masks[entity] = 0.
DestroyEntity_KeepsMask(w, entity) ==
    LET hit == {k \in DOMAIN w.view_cache : entity \in w.view_cache[k].lookup}
        rem == IndexOf(w.entities, entity)
    IN [w EXCEPT
          !.components = [t \in DOMAIN w.components |->
                             ArrayRemove(w.components[t], entity)],
          !.view_cache =
              [k \in DOMAIN w.view_cache |->
                  IF k \in hit
                  THEN [w.view_cache[k] EXCEPT
                           !.diffs = Append(w.view_cache[k].diffs,
                                            Diff(entity, "Remove"))]
                  ELSE w.view_cache[k]],
          !.entities = SwapRemove(w.entities, rem),
          !.destroyed_entities =
              Append(w.destroyed_entities, [entity |-> entity, caches |-> hit])]

\* World::destroy_entity, for a live entity other than NullEntity (its two
\* ASSERTs). destroyed.caches holds pointers to caches: here their keys.
DestroyEntity(w, entity) ==
    LET hit == {k \in DOMAIN w.view_cache : entity \in w.view_cache[k].lookup}
        rem == IndexOf(w.entities, entity)
    IN [w EXCEPT
          !.components = [t \in DOMAIN w.components |->
                             ArrayRemove(w.components[t], entity)],
          !.entity_masks[entity] = {},
          !.view_cache =
              [k \in DOMAIN w.view_cache |->
                  IF k \in hit
                  THEN [w.view_cache[k] EXCEPT
                           !.diffs = Append(w.view_cache[k].diffs,
                                            Diff(entity, "Remove"))]
                  ELSE w.view_cache[k]],
          !.entities = SwapRemove(w.entities, rem),
          !.destroyed_entities =
              Append(w.destroyed_entities, [entity |-> entity, caches |-> hit])]

\* The body of the outer loop of World::collect_unused_entities without
\* apply_diffs_to_cache.
CollectOne_NoApply(w, destroyed, assertions) ==
    IF w.aborted THEN w
    ELSE [w EXCEPT !.unused_entities =
                       Append(w.unused_entities, destroyed.entity)]

\* The body of the outer loop of World::collect_unused_entities for one
\* record: the diffs of each cache it lists are applied (the caches are
\* distinct, so their order does not matter), then the id is freed.
CollectOne(w, destroyed, assertions) ==
    IF w.aborted THEN w
    ELSE LET applied == [k \in destroyed.caches |->
                            ApplyDiffsToCache(w.view_cache[k], assertions)]
         IN IF \E k \in destroyed.caches : applied[k].aborted
            THEN [w EXCEPT !.aborted = TRUE]
            ELSE [w EXCEPT
                    !.view_cache = [k \in DOMAIN w.view_cache |->
                                       IF k \in destroyed.caches
                                       THEN applied[k].cache
                                       ELSE w.view_cache[k]],
                    !.unused_entities =
                        Append(w.unused_entities, destroyed.entity)]

RECURSIVE CollectFrom(_, _, _, _)
CollectFrom(w, ds, i, assertions) ==
    IF i > Len(ds) THEN w
    ELSE CollectFrom(CollectOne(w, ds[i], assertions), ds, i + 1, assertions)

\* CollectUnusedEntities without destroyed_entities.clear().
CollectUnusedEntities_NoClear(w, assertions) ==
    IF Len(w.destroyed_entities) = 0
    THEN w
    ELSE CollectFrom(w, w.destroyed_entities, 1, assertions)

\* World::collect_unused_entities in a build with or without assertions.
CollectUnusedEntities(w, assertions) ==
    IF Len(w.destroyed_entities) = 0
    THEN w
    ELSE LET w1 == CollectFrom(w, w.destroyed_entities, 1, assertions) IN
         IF w1.aborted THEN w1 ELSE [w1 EXCEPT !.destroyed_entities = << >>]

(* --------------------------------------------------------------- systems *)

nullptr == 0

\* new T(...): [w, system], system the pointer to the new object.
NewSystem(w, T) ==
    [w |-> [w EXCEPT !.system_objects =
                Append(w.system_objects,
                       [type |-> T, loads |-> 0, unloads |-> 0,
                        deleted |-> FALSE])],
     system |-> Len(w.system_objects) + 1]

\* World::make_system<T>(args): [w, system]
MakeSystem(w, T) ==
    LET n == NewSystem(w, T) IN
    [w |-> [n.w EXCEPT
              !.active_systems      = Append(n.w.active_systems, n.system),
              !.active_system_types = Append(n.w.active_system_types, T),
              !.system_objects[n.system].loads =
                  n.w.system_objects[n.system].loads + 1],
     system |-> n.system]

\* World::make_system_before<Before, T>(args): [w, system]. pos is the
\* position of the first Before counted from 1, 0 for end(); index is
\* std::distance(pos, end()) - 1.
MakeSystemBefore(w, Before, T) ==
    LET pos == IndexOf(w.active_system_types, Before)
        n   == NewSystem(w, T)
    IN IF pos = 0
       THEN n
       ELSE LET index == (Len(w.active_system_types) - (pos - 1)) - 1 IN
            [w |-> [n.w EXCEPT
                      !.active_systems =
                          InsertAt(n.w.active_systems, index, n.system),
                      !.active_system_types =
                          InsertAt(n.w.active_system_types, pos - 1, T)],
             system |-> n.system]

\* World::get_system<T>(): the pointer, or nullptr.
GetSystem(w, T) ==
    LET pos == IndexOf(w.active_system_types, T) IN
    IF pos = 0 THEN nullptr ELSE w.active_systems[pos]

\* World::destroy_system, for a pointer to an object that is not deleted.
DestroySystem(w, system) ==
    LET pos == IndexOf(w.active_systems, system) IN
    IF pos = 0
    THEN w
    ELSE [w EXCEPT
            !.system_objects[system].unloads =
                w.system_objects[system].unloads + 1,
            !.system_objects[system].deleted = TRUE,
            !.active_systems      = EraseAt(w.active_systems, pos - 1),
            !.active_system_types = EraseAt(w.active_system_types, pos - 1)]

\* World::destroy_systems
DestroySystems(w) ==
    [w EXCEPT
        !.system_objects =
            [p \in DOMAIN w.system_objects |->
                IF p \in Range(w.active_systems)
                THEN [w.system_objects[p] EXCEPT
                         !.unloads = w.system_objects[p].unloads + 1,
                         !.deleted = TRUE]
                ELSE w.system_objects[p]],
        !.active_systems      = << >>,
        !.active_system_types = << >>]

(* --------------------------------------------------------------- actions *)

\* one_seen after the call `call`: a view_one that returns an entity is
\* remembered, and forgotten once that entity is destroyed, deactivated or
\* has a component removed.
Seen(call) ==
    IF call.op = "view_one"
    THEN IF call.result = << >> THEN << >>
         ELSE <<[Cs |-> call.Cs, include_inactive |-> call.include_inactive,
                 entity |-> call.result[1]]>>
    ELSE IF one_seen = << >> THEN one_seen
    ELSE IF \/ call.op \in {"destroy_entity", "remove_component"}
               /\ call.entity = one_seen[1].entity
            \/ call.op = "set_active" /\ ~call.active
               /\ call.entity = one_seen[1].entity
         THEN << >>
         ELSE one_seen

\* The world after a call that returned w; a call that aborted leaves the
\* world as it was, with aborted set.
WorldBecomes(w) ==
    /\ aborted' = w.aborted
    /\ LET v == IF w.aborted THEN World ELSE w IN
       /\ component_type_index' = v.component_type_index
       /\ alive_count' = v.alive_count
       /\ unused_entities' = v.unused_entities
       /\ destroyed_entities' = v.destroyed_entities
       /\ entities' = v.entities
       /\ view_cache' = v.view_cache
       /\ components' = v.components
       /\ entity_masks' = v.entity_masks
       /\ component_types' = v.component_types
       /\ active_component_t' = v.active_component_t
       /\ active_systems' = v.active_systems
       /\ active_system_types' = v.active_system_types
       /\ system_objects' = v.system_objects

\* The state after the call `call` that returned w; a call that aborted
\* leaves the state as it was, with aborted set.
CommitWith(w, call, t) ==
    /\ steps' = steps + 1
    /\ last_call' = call
    /\ one_seen' = IF w.aborted THEN one_seen ELSE Seen(call)
    /\ toggles' = IF w.aborted THEN toggles ELSE t
    /\ WorldBecomes(w)
    /\ UNCHANGED <<busvars, loopvars>>

Commit(w, call) == CommitWith(w, call, toggles)

Running == ~aborted /\ steps < MaxSteps

\* The entities a caller holds: the live ones (NullEntity is one of them).
Live == Range(entities)

\* The slot of entity in the store of T, or -1.
SlotOf(w, entity, T) ==
    IF HasComponent(w, entity, T)
    THEN w.components[w.component_types[T]].entity_to_packed[entity]
    ELSE -1

Init ==
    /\ component_type_index = 0
    /\ alive_count = 0
    /\ unused_entities = << >>
    /\ destroyed_entities = << >>
    /\ entities = << >>
    /\ view_cache = EmptyMap
    /\ components = EmptyMap
    /\ entity_masks = [e \in 0..(TWO_ENTITY_MAX - 1) |-> {}]
    /\ component_types = EmptyMap
    /\ active_component_t = EmptyMap
    /\ active_systems = << >>
    /\ active_system_types = << >>
    /\ system_objects = << >>
    /\ aborted = FALSE
    /\ steps = 0
    /\ last_call = [op |-> "none"]
    /\ one_seen = << >>
    /\ toggles = EmptyMap
    /\ event_buses = EmptyMap
    /\ handler_calls = << >>
    /\ running = FALSE
    /\ destroyed_world = FALSE
    /\ pc = "load_world"
    /\ draw_index = 0
    /\ frame_trace = << >>
    /\ frames = 0

MakeEntityAct ==
    /\ Running
    /\ LET m == MakeEntity(World) IN
       Commit(m.w, [op |-> "make_entity", entity |-> m.entity])

MakeInactiveEntityAct ==
    /\ Running
    /\ LET m == MakeInactiveEntity(World) IN
       Commit(m.w, [op |-> "make_inactive_entity", entity |-> m.entity])

MakeEntityPrefabAct ==
    /\ Running
    /\ \E prefab \in Live :
         LET m == MakeEntityPrefab(World, prefab) IN
         Commit(m.w, [op |-> "make_entity_prefab", prefab |-> prefab,
                      entity |-> m.entity])

PackAct ==
    /\ Running
    /\ \E entity \in Live, T \in TypeNames \ {"Active"} :
         \E component \in ValuesOf(T) :
            Commit(Pack(World, entity, T, component),
                   [op |-> "pack", entity |-> entity, type |-> T,
                    component |-> component,
                    had |-> HasComponent(World, entity, T)])

RemoveComponentAct ==
    /\ Running
    /\ \E entity \in Live, T \in (DOMAIN component_types) \ {"Active"} :
         Commit(RemoveComponent(World, entity, T),
                [op |-> "remove_component", entity |-> entity, type |-> T,
                 had |-> HasComponent(World, entity, T),
                 slot |-> SlotOf(World, entity, T)])

\* remove_component of a type that was never registered fails its ASSERT
\* (without assertions the call is undefined: not a call of the model).
RemoveUnregisteredAct ==
    /\ Running
    /\ \E entity \in Live, T \in TypeNames \ DOMAIN component_types :
         Commit([World EXCEPT !.aborted = TRUE],
                [op |-> "remove_component", entity |-> entity, type |-> T,
                 had |-> FALSE, slot |-> -1])

SetActiveAct ==
    /\ Running
    /\ \E entity \in Live, active \in BOOLEAN :
         /\ active \/ "Active" \in DOMAIN component_types
         /\ Commit(SetActive(World, entity, active),
                   [op |-> "set_active", entity |-> entity, active |-> active])

CopyEntityAct ==
    /\ Running
    /\ \E dst \in Live, src \in Live :
         Commit(CopyEntity(World, dst, src),
                [op |-> "copy_entity", dst |-> dst, src |-> src])

DestroyEntityAct ==
    /\ Running
    /\ \E entity \in Live \ {NullEntity} :
         Commit(DestroyEntity(World, entity),
                [op |-> "destroy_entity", entity |-> entity])

CollectUnusedEntitiesAct ==
    /\ Running
    /\ \E assertions \in BOOLEAN :
         Commit(CollectUnusedEntities(World, assertions),
                [op |-> "collect_unused_entities"])

ViewAct ==
    /\ Running
    /\ \E Cs \in ViewSets, include_inactive \in BOOLEAN, assertions \in BOOLEAN :
         LET v == View(World, Cs, include_inactive, assertions) IN
         Commit(v.w, [op |-> "view", Cs |-> Cs,
                      include_inactive |-> include_inactive,
                      result |-> v.result])

Next ==
    \/ MakeEntityAct
    \/ MakeInactiveEntityAct
    \/ MakeEntityPrefabAct
    \/ PackAct
    \/ RemoveComponentAct
    \/ RemoveUnregisteredAct
    \/ SetActiveAct
    \/ CopyEntityAct
    \/ DestroyEntityAct
    \/ CollectUnusedEntitiesAct
    \/ ViewAct

Spec == Init /\ [][Next]_vars

(* ------------------------------------ the entity registry alone, deeper *)

\* Creation, destruction and collection only, for more calls in a row.
IdRunning == ~aborted /\ steps < MaxIdSteps

IdMakeEntityAct ==
    /\ IdRunning
    /\ LET m == MakeEntity(World) IN
       Commit(m.w, [op |-> "make_entity", entity |-> m.entity])

IdMakeInactiveEntityAct ==
    /\ IdRunning
    /\ LET m == MakeInactiveEntity(World) IN
       Commit(m.w, [op |-> "make_inactive_entity", entity |-> m.entity])

IdDestroyEntityAct ==
    /\ IdRunning
    /\ \E entity \in Live \ {NullEntity} :
         Commit(DestroyEntity(World, entity),
                [op |-> "destroy_entity", entity |-> entity])

IdCollectUnusedEntitiesAct ==
    /\ IdRunning
    /\ \E assertions \in BOOLEAN :
         Commit(CollectUnusedEntities(World, assertions),
                [op |-> "collect_unused_entities"])

IdNext ==
    \/ IdMakeEntityAct
    \/ IdMakeInactiveEntityAct
    \/ IdDestroyEntityAct
    \/ IdCollectUnusedEntitiesAct

IdSpec == Init /\ [][IdNext]_vars

(* ------------------------------------------- the calls with has_component *)

\* has_component<T>(entity) for any id of entity_masks and any type.
HasComponentAct ==
    /\ Running
    /\ \E entity \in 0..(TWO_ENTITY_MAX - 1), T \in TypeNames :
         LET h == HasComponentCall(World, entity, T) IN
         Commit(h.w, [op |-> "has_component", entity |-> entity, type |-> T,
                      result |-> h.result])

HasNext ==
    \/ MakeEntityAct
    \/ MakeInactiveEntityAct
    \/ PackAct
    \/ RemoveComponentAct
    \/ ViewAct
    \/ HasComponentAct

HasSpec == Init /\ [][HasNext]_vars

(* ------------------------------------------------ the calls on systems *)

SysRunning == ~aborted /\ steps < MaxSysSteps

MakeSystemAct ==
    /\ SysRunning
    /\ \E T \in SystemTypes :
         LET m == MakeSystem(World, T) IN
         Commit(m.w, [op |-> "make_system", type |-> T, system |-> m.system])

MakeSystemBeforeAct ==
    /\ SysRunning
    /\ \E Before \in SystemTypes, T \in SystemTypes :
         LET m == MakeSystemBefore(World, Before, T) IN
         Commit(m.w, [op |-> "make_system_before", before |-> Before,
                      type |-> T, system |-> m.system])

\* destroy_system(system) for any pointer the caller holds to an object that
\* was not deleted, in the world or not.
DestroySystemAct ==
    /\ SysRunning
    /\ \E system \in DOMAIN system_objects :
         /\ ~system_objects[system].deleted
         /\ Commit(DestroySystem(World, system),
                   [op |-> "destroy_system", system |-> system])

DestroySystemsAct ==
    /\ SysRunning
    /\ Commit(DestroySystems(World), [op |-> "destroy_systems"])

SysNext ==
    \/ MakeSystemAct
    \/ MakeSystemBeforeAct
    \/ DestroySystemAct
    \/ DestroySystemsAct

SysSpec == Init /\ [][SysNext]_vars

(* pack and remove_component between two queries of a view, with the       *)
(* changes of each entity's membership recorded in toggles.                 *)

ToggleRunning == ~aborted /\ steps < MaxToggleSteps

\* The key of the cache of view<Cs...>(include_inactive), after its call.
ViewMask(w, Cs, include_inactive) ==
    {w.component_types[Cs[i]] : i \in 1..Len(Cs)}
    \cup (IF include_inactive THEN {} ELSE {w.active_component_t[Cs]})

\* In world w the mask of the live entity e satisfies the mask k.
Satisfies(w, e, k) ==
    /\ e \in Range(w.entities)
    /\ k \subseteq w.entity_masks[e]

\* toggles after the call `call` that returned w: a cache that was made or
\* queried by the call starts anew, and an entity whose mask came to satisfy
\* or stopped satisfying a cache's mask has the change appended.
Toggled(w, call) ==
    [k \in DOMAIN w.view_cache |->
        IF \/ k \notin DOMAIN view_cache
           \/ /\ call.op = "view"
              /\ ViewMask(w, call.Cs, call.include_inactive) = k
        THEN [e \in 0..(TWO_ENTITY_MAX - 1) |-> << >>]
        ELSE [e \in 0..(TWO_ENTITY_MAX - 1) |->
                IF Satisfies(w, e, k) = Satisfies(World, e, k)
                THEN toggles[k][e]
                ELSE Append(toggles[k][e],
                            IF Satisfies(w, e, k) THEN "Add" ELSE "Remove")]]

ToggleCommit(w, call) ==
    CommitWith(w, call, IF w.aborted THEN toggles ELSE Toggled(w, call))

ToggleMakeEntityAct ==
    /\ ToggleRunning
    /\ LET m == MakeEntity(World) IN
       ToggleCommit(m.w, [op |-> "make_entity", entity |-> m.entity])

TogglePackAct ==
    /\ ToggleRunning
    /\ \E entity \in Live, T \in TypeNames \ {"Active"} :
         \E component \in ValuesOf(T) :
            ToggleCommit(Pack(World, entity, T, component),
                         [op |-> "pack", entity |-> entity, type |-> T,
                          component |-> component,
                          had |-> HasComponent(World, entity, T)])

ToggleRemoveComponentAct ==
    /\ ToggleRunning
    /\ \E entity \in Live, T \in (DOMAIN component_types) \ {"Active"} :
         ToggleCommit(RemoveComponent(World, entity, T),
                      [op |-> "remove_component", entity |-> entity,
                       type |-> T,
                       had |-> HasComponent(World, entity, T),
                       slot |-> SlotOf(World, entity, T)])

ToggleViewAct ==
    /\ ToggleRunning
    /\ \E Cs \in ViewSets, include_inactive \in BOOLEAN, assertions \in BOOLEAN :
         LET v == View(World, Cs, include_inactive, assertions) IN
         ToggleCommit(v.w, [op |-> "view", Cs |-> Cs,
                            include_inactive |-> include_inactive,
                            result |-> v.result])

ToggleNext ==
    \/ ToggleMakeEntityAct
    \/ TogglePackAct
    \/ ToggleRemoveComponentAct
    \/ ToggleViewAct

ToggleSpec == Init /\ [][ToggleNext]_vars

(* copy_entity among the calls that give entities components and query     *)
(* them.                                                                    *)

CopyRunning == ~aborted /\ steps < MaxCopySteps

CopyMakeEntityAct ==
    /\ CopyRunning
    /\ LET m == MakeEntity(World) IN
       Commit(m.w, [op |-> "make_entity", entity |-> m.entity])

CopyPackAct ==
    /\ CopyRunning
    /\ \E entity \in Live, component \in ValuesOf("C1") :
         Commit(Pack(World, entity, "C1", component),
                [op |-> "pack", entity |-> entity, type |-> "C1",
                 component |-> component,
                 had |-> HasComponent(World, entity, "C1")])

CopySetActiveAct ==
    /\ CopyRunning
    /\ \E entity \in Live, active \in BOOLEAN :
         /\ active \/ "Active" \in DOMAIN component_types
         /\ Commit(SetActive(World, entity, active),
                   [op |-> "set_active", entity |-> entity, active |-> active])

CopyCopyEntityAct ==
    /\ CopyRunning
    /\ \E dst \in Live, src \in Live :
         Commit(CopyEntity(World, dst, src),
                [op |-> "copy_entity", dst |-> dst, src |-> src])

CopyViewAct ==
    /\ CopyRunning
    /\ \E Cs \in ViewSets, include_inactive \in BOOLEAN, assertions \in BOOLEAN :
         LET v == View(World, Cs, include_inactive, assertions) IN
         Commit(v.w, [op |-> "view", Cs |-> Cs,
                      include_inactive |-> include_inactive,
                      result |-> v.result])

CopyNext ==
    \/ CopyMakeEntityAct
    \/ CopyPackAct
    \/ CopySetActiveAct
    \/ CopyCopyEntityAct
    \/ CopyViewAct

CopySpec == Init /\ [][CopyNext]_vars

(* The event dispatcher alone: bind, emit and clear. EventBus<T>::unbind    *)
(* compares two std::function objects with std::find, which does not        *)
(* compile when the template is instantiated, so no caller can reach it.    *)

BusRunning == ~aborted /\ steps < MaxBusSteps

BusCommit(buses, calls, call) ==
    /\ steps' = steps + 1
    /\ last_call' = call
    /\ event_buses' = buses
    /\ handler_calls' = calls
    /\ UNCHANGED <<worldvars, one_seen, toggles, loopvars>>

BindAct ==
    /\ BusRunning
    /\ \E T \in EventTypes, callback \in Handlers :
         /\ T \in DOMAIN event_buses => Len(event_buses[T]) < MaxHandlers
         /\ BusCommit(DispatcherBind(event_buses, T, callback), handler_calls,
                      [op |-> "bind", type |-> T, callback |-> callback])

EmitAct ==
    /\ BusRunning
    /\ \E T \in EventTypes :
         BusCommit(event_buses, DispatcherEmit(event_buses, T),
                   [op |-> "emit", type |-> T])

ClearAct ==
    /\ BusRunning
    /\ BusCommit(DispatcherClear(event_buses), handler_calls,
                 [op |-> "clear"])

BusNext ==
    \/ BindAct
    \/ EmitAct
    \/ ClearAct

BusSpec == Init /\ [][BusNext]_vars

(* The main loop of two.cpp: load_world before run(), then in every frame   *)
(* pump, World::update, draw on every system, collect_unused_entities.      *)
(* The bodies of the renderers' draw hooks are outside the model.           *)

\* A world as its constructor leaves it; the System objects are the heap's.
NewWorld(objects) ==
    [component_type_index |-> 0,
     alive_count          |-> 0,
     unused_entities      |-> << >>,
     destroyed_entities   |-> << >>,
     entities             |-> << >>,
     view_cache           |-> EmptyMap,
     components           |-> EmptyMap,
     entity_masks         |-> [e \in 0..(TWO_ENTITY_MAX - 1) |-> {}],
     component_types      |-> EmptyMap,
     active_component_t   |-> EmptyMap,
     active_systems       |-> << >>,
     active_system_types  |-> << >>,
     system_objects       |-> objects,
     aborted              |-> FALSE]

\* World::load of the world loaded: Main::load makes a SpriteRenderer and a
\* FontRenderer and the camera entity; World::load and Main2::load do
\* nothing.
WorldLoad(w, override) ==
    IF override = "Main"
    THEN MakeEntity(MakeSystem(MakeSystem(w, "SpriteRenderer").w,
                               "FontRenderer").w).w
    ELSE w

\* load_world_finish: the queued world becomes the world, gets its
\* BackgroundRenderer and is loaded. The statics of view<Cs...> are the
\* process's, not the world's: they keep the value their first call set.
LoadWorldFinish(w, override) ==
    WorldLoad(MakeSystem([NewWorld(w.system_objects) EXCEPT
                             !.active_component_t = w.active_component_t],
                         "BackgroundRenderer").w,
              override)

\* World::update(dt) of the world loaded: World::update does nothing,
\* Main::update walks view<Transform, Sprite>() (here view<C1>()). Neither
\* calls update on a system.
WorldUpdate(w, override, assertions) ==
    IF override = "Main"
    THEN View(w, <<"C1">>, FALSE, assertions).w
    ELSE w

\* The system the range-for of run() draws at position index (from 0),
\* walked from the back.
DrawNext_Reverse(systems, index) == systems[Len(systems) - index]

\* The system the range-for of run() draws at position index (from 0).
DrawNext(systems, index) == systems[index + 1]

Overrides == {"World", "Main"}

LoadWorldAct ==
    /\ pc = "load_world"
    /\ ~aborted
    /\ \E override \in Overrides :
         WorldBecomes(LoadWorldFinish(World, override))
    /\ running' = TRUE
    /\ pc' = "pump"
    /\ UNCHANGED <<steps, last_call, one_seen, toggles, busvars, destroyed_world,
                   draw_index, frame_trace, frames>>

\* The top of the loop: load_world_finish when a world was destroyed, then
\* pump(), whose handlers are the game's: one of them makes or destroys an
\* entity, loads another world, or quits. load_world and quit call
\* destroy_world: destroy_systems, clear_event_listeners, destroyed_world.
PumpAct ==
    /\ pc = "pump"
    /\ ~aborted
    /\ frames < MaxFrames
    /\ \E override \in Overrides,
          handler \in {"none", "make_entity", "destroy_entity",
                       "load_world", "quit"} :
         LET w == IF destroyed_world
                  THEN LoadWorldFinish(World, override) ELSE World
         IN /\ ~destroyed_world => override = "World"
            /\ CASE handler = "none" ->
                    /\ WorldBecomes(w)
                    /\ destroyed_world' = FALSE
                    /\ running' = running
                 [] handler = "make_entity" ->
                    /\ WorldBecomes(MakeEntity(w).w)
                    /\ destroyed_world' = FALSE
                    /\ running' = running
                 [] handler = "destroy_entity" ->
                    /\ \E entity \in Range(w.entities) \ {NullEntity} :
                          WorldBecomes(DestroyEntity(w, entity))
                    /\ destroyed_world' = FALSE
                    /\ running' = running
                 [] handler = "load_world" ->
                    /\ WorldBecomes(DestroySystems(w))
                    /\ destroyed_world' = TRUE
                    /\ running' = running
                 [] handler = "quit" ->
                    /\ WorldBecomes(DestroySystems(w))
                    /\ destroyed_world' = TRUE
                    /\ running' = FALSE
            /\ event_buses' = IF handler \in {"load_world", "quit"}
                              THEN DispatcherClear(event_buses)
                              ELSE event_buses
            /\ pc' = IF handler = "quit" THEN "done" ELSE "update"
    /\ frame_trace' = << >>
    /\ UNCHANGED <<steps, last_call, one_seen, toggles, handler_calls, draw_index,
                   frames>>

UpdateAct ==
    /\ pc = "update"
    /\ ~aborted
    /\ \E override \in Overrides, assertions \in BOOLEAN :
         WorldBecomes(WorldUpdate(World, override, assertions))
    /\ frame_trace' = Append(frame_trace, [hook |-> "World::update"])
    /\ pc' = "draw"
    /\ draw_index' = 0
    /\ UNCHANGED <<steps, last_call, one_seen, toggles, busvars, running,
                   destroyed_world, frames>>

DrawAct ==
    /\ pc = "draw"
    /\ ~aborted
    /\ draw_index < Len(active_systems)
    /\ frame_trace' = Append(frame_trace,
                             [hook |-> "draw",
                              system |-> DrawNext(active_systems, draw_index)])
    /\ draw_index' = draw_index + 1
    /\ UNCHANGED <<worldvars, steps, last_call, one_seen, toggles, busvars, running,
                   destroyed_world, pc, frames>>

\* The end of the range-for, collect_unused_entities and the present.
CollectAct ==
    /\ pc = "draw"
    /\ ~aborted
    /\ draw_index >= Len(active_systems)
    /\ \E assertions \in BOOLEAN :
         LET w == CollectUnusedEntities(World, assertions) IN
         /\ WorldBecomes(w)
         /\ frame_trace' = IF w.aborted THEN frame_trace
                           ELSE Append(frame_trace, [hook |-> "collect"])
         /\ pc' = IF w.aborted THEN pc ELSE "pump"
         /\ frames' = IF w.aborted THEN frames ELSE frames + 1
    /\ UNCHANGED <<steps, last_call, one_seen, toggles, busvars, running,
                   destroyed_world, draw_index>>

FrameNext ==
    \/ LoadWorldAct
    \/ PumpAct
    \/ UpdateAct
    \/ DrawAct
    \/ CollectAct

FrameSpec == Init /\ [][FrameNext]_vars

(* The worlds of one process, one after the other: the calls of a world,    *)
(* and load_world(w) with the load_world_finish that follows it, after      *)
(* which the calls are the new world's.                                     *)

WorldsRunning == ~aborted /\ steps < MaxWorldsSteps

WorldsMakeEntityAct ==
    /\ WorldsRunning
    /\ LET m == MakeEntity(World) IN
       Commit(m.w, [op |-> "make_entity", entity |-> m.entity])

WorldsPackAct ==
    /\ WorldsRunning
    /\ \E entity \in Live, component \in ValuesOf("C1") :
         Commit(Pack(World, entity, "C1", component),
                [op |-> "pack", entity |-> entity, type |-> "C1",
                 component |-> component,
                 had |-> HasComponent(World, entity, "C1")])

WorldsViewAct ==
    /\ WorldsRunning
    /\ \E Cs \in ViewSets, include_inactive \in BOOLEAN, assertions \in BOOLEAN :
         LET v == View(World, Cs, include_inactive, assertions) IN
         Commit(v.w, [op |-> "view", Cs |-> Cs,
                      include_inactive |-> include_inactive,
                      result |-> v.result])

\* load_world(w): destroy_world(world) and, at the top of the next frame,
\* load_world_finish (World::load of the new world does nothing).
WorldsLoadWorldAct ==
    /\ WorldsRunning
    /\ Commit(LoadWorldFinish(DestroySystems(World), "World"),
              [op |-> "load_world"])

WorldsNext ==
    \/ WorldsMakeEntityAct
    \/ WorldsPackAct
    \/ WorldsViewAct
    \/ WorldsLoadWorldAct

WorldsSpec == Init /\ [][WorldsNext]_vars

(* -------------------------------------------------- the calls of view_one *)

OneRunning == ~aborted /\ steps < MaxOneSteps

OneMakeEntityAct ==
    /\ OneRunning
    /\ LET m == MakeEntity(World) IN
       Commit(m.w, [op |-> "make_entity", entity |-> m.entity])

OneSetActiveAct ==
    /\ OneRunning
    /\ \E entity \in Live \ {NullEntity}, active \in BOOLEAN :
         /\ active \/ "Active" \in DOMAIN component_types
         /\ Commit(SetActive(World, entity, active),
                   [op |-> "set_active", entity |-> entity, active |-> active])

OneDestroyEntityAct ==
    /\ OneRunning
    /\ \E entity \in Live \ {NullEntity} :
         Commit(DestroyEntity(World, entity),
                [op |-> "destroy_entity", entity |-> entity])

ViewOneAct ==
    /\ OneRunning
    /\ \E Cs \in ViewSets, include_inactive \in BOOLEAN, assertions \in BOOLEAN :
         LET v == ViewOne(World, Cs, include_inactive, assertions) IN
         Commit(v.w, [op |-> "view_one", Cs |-> Cs,
                      include_inactive |-> include_inactive,
                      result |-> v.result])

OneNext ==
    \/ OneMakeEntityAct
    \/ OneSetActiveAct
    \/ OneDestroyEntityAct
    \/ ViewOneAct

OneSpec == Init /\ [][OneNext]_vars

(* ------------------------------------ more types than TWO_COMPONENT_MAX *)

\* The callers' types with the second test component, struct C2 {}
\* (entity_test.cpp): one more than TWO_COMPONENT_MAX with Active.
RegTypeNames == {"C1", "C2"}

RegViewSets == {<< >>, <<"C1">>, <<"C2">>}

\* A write past World::components is undefined: the process may crash at
\* once, or run on with the memory behind the array overwritten, and then
\* nothing more is said about it.
RegRunning == Running /\ component_type_index <= TWO_COMPONENT_MAX

\* The outcome of a call that returned w: crash stands for the crash the
\* write past the array may cause.
OutOfBounds(w, crash) ==
    IF crash /\ w.component_type_index > TWO_COMPONENT_MAX
    THEN [w EXCEPT !.aborted = TRUE]
    ELSE w

RegMakeInactiveEntityAct ==
    /\ RegRunning
    /\ LET m == MakeInactiveEntity(World) IN
       Commit(m.w, [op |-> "make_inactive_entity", entity |-> m.entity])

\* register_component<T>() of a type that is not registered.
RegisterComponentAct ==
    /\ RegRunning
    /\ \E T \in RegTypeNames \ DOMAIN component_types, crash \in BOOLEAN :
         Commit(OutOfBounds(RegisterComponent(World, T), crash),
                [op |-> "register_component", type |-> T,
                 index |-> component_type_index])

RegPackAct ==
    /\ RegRunning
    /\ \E entity \in Live \ {NullEntity}, T \in RegTypeNames, crash \in BOOLEAN :
         \E component \in ValuesOf(T) :
            Commit(OutOfBounds(Pack(World, entity, T, component), crash),
                   [op |-> "pack", entity |-> entity, type |-> T,
                    component |-> component,
                    had |-> HasComponent(World, entity, T),
                    index |-> component_type_index])

RegViewAct ==
    /\ RegRunning
    /\ \E Cs \in RegViewSets, include_inactive \in BOOLEAN,
          assertions \in BOOLEAN, crash \in BOOLEAN :
         LET v == View(World, Cs, include_inactive, assertions) IN
         Commit(OutOfBounds(v.w, crash),
                [op |-> "view", Cs |-> Cs,
                 include_inactive |-> include_inactive,
                 result |-> v.result,
                 index |-> component_type_index])

RegNext ==
    \/ RegMakeInactiveEntityAct
    \/ RegisterComponentAct
    \/ RegPackAct
    \/ RegViewAct

RegSpec == Init /\ [][RegNext]_vars

(* ---------------------------------------------------------------- claims *)

\* Entity e holds a component of type T, by its mask.
HasBit(e, T) ==
    /\ T \in DOMAIN component_types
    /\ component_types[T] \in entity_masks[e]

\* The ids destroyed since the last collect_unused_entities.
Pending == {destroyed_entities[i].entity : i \in 1..Len(destroyed_entities)}

IsMake(call) ==
    call.op \in {"make_entity", "make_inactive_entity", "make_entity_prefab"}

\* C1: a default view<T>() returns exactly the live entities whose mask has
\* bit(T) and the Active bit, whatever calls came before, also when an
\* entity's membership was toggled between two queries of the view. Stated
\* over the live entities of the result (ids of destroyed entities are C3's).
C1_ViewExactlyMatching ==
    (/\ ~aborted
     /\ last_call.op = "view"
     /\ ~last_call.include_inactive
     /\ Len(last_call.Cs) = 1)
    => LET T == last_call.Cs[1] IN
       Range(last_call.result) \cap Live
           = {e \in Live : HasBit(e, T) /\ HasBit(e, "Active")}

\* C3: after destroy_entity(e) no view contains e, as long as the id has not
\* been handed out again (it is pending collection or in the free pool).
C3_DestroyedNotInView ==
    (~aborted /\ last_call.op = "view")
    => \A e \in Range(last_call.result) :
           e \notin Pending \cup Range(unused_entities)

\* C4: whenever an id is in the free pool, no cache lists it, has it in its
\* membership set or holds a pending diff for it.
C4_PoolIdInNoCache ==
    ~aborted
    => \A e \in Range(unused_entities) : \A k \in DOMAIN view_cache :
           /\ e \notin Range(view_cache[k].entities)
           /\ e \notin view_cache[k].lookup
           /\ \A i \in 1..Len(view_cache[k].diffs) :
                  view_cache[k].diffs[i].entity # e

\* C9: a live entity that does not hold Active is never returned by a default
\* view, also when it was activated and deactivated between two queries.
C9_InactiveNotInDefaultView ==
    (~aborted /\ last_call.op = "view" /\ ~last_call.include_inactive)
    => \A e \in Range(last_call.result) \cap Live : HasBit(e, "Active")

\* C2: between destroy_entity(e) and the end of the next
\* collect_unused_entities no make_entity / make_inactive_entity returns e,
\* and e is not in the free pool while its destruction record is unflushed.
C2_NoReuseBeforeCollect ==
    ~aborted
    => /\ IsMake(last_call) => last_call.entity \notin Pending
       /\ Range(unused_entities) \cap Pending = {}

\* A make returned while a destroyed entity awaited collection.
C2_Witness ==
    /\ ~aborted
    /\ IsMake(last_call)
    /\ Pending # {}

\* C5: pack<T>(e, v) on an entity that already holds a T only replaces the
\* stored value: no mask, no cache list, lookup or diff queue changes, the
\* store keeps its slots, and no view returns another result than before.
C5_ReplaceKeepsMembership ==
    [][(~aborted' /\ last_call'.op = "pack" /\ last_call'.had)
       => LET e    == last_call'.entity
              type == component_types[last_call'.type]
              slot == components[type].entity_to_packed[e]
          IN /\ entity_masks' = entity_masks
             /\ view_cache' = view_cache
             /\ component_types' = component_types
             /\ components' =
                  [components EXCEPT
                      ![type].packed_array[slot + 1] = last_call'.component]
             /\ \A Cs \in ViewSets, inc \in BOOLEAN, assertions \in BOOLEAN :
                    LET before == View(World, Cs, inc, assertions)
                        after  == View(World', Cs, inc, assertions)
                    IN /\ after.result = before.result
                       /\ after.w.aborted = before.w.aborted
      ]_vars

\* A pack replaced the value of an entity that a cache lists.
C5_Witness ==
    /\ ~aborted
    /\ last_call.op = "pack"
    /\ last_call.had
    /\ \E k \in DOMAIN view_cache : last_call.entity \in view_cache[k].lookup

\* The array is packed: count is the number of entities with a slot, the two
\* maps are inverses of each other and the slots are exactly 0 .. count - 1.
ArrayPacked(a) ==
    /\ a.packed_count = Cardinality(DOMAIN a.entity_to_packed)
    /\ DOMAIN a.packed_to_entity = 0..(a.packed_count - 1)
    /\ a.packed_count <= Len(a.packed_array)
    /\ \A e \in DOMAIN a.entity_to_packed :
          /\ a.entity_to_packed[e] \in DOMAIN a.packed_to_entity
          /\ a.packed_to_entity[a.entity_to_packed[e]] = e
    /\ \A p \in DOMAIN a.packed_to_entity :
          /\ a.packed_to_entity[p] \in DOMAIN a.entity_to_packed
          /\ a.entity_to_packed[a.packed_to_entity[p]] = p

\* C6: after every sequence of write and remove calls each ComponentArray is
\* packed (count, inverse maps, slot range), also when the removed entity
\* occupied the last slot.
C6_ArraysPacked ==
    ~aborted => \A t \in DOMAIN components : ArrayPacked(components[t])

\* A remove took the entity of the last slot out of an array that keeps others.
C6_Witness ==
    /\ ~aborted
    /\ last_call.op = "remove_component"
    /\ last_call.had
    /\ LET a == components[component_types[last_call.type]] IN
       /\ a.packed_count >= 1
       /\ last_call.slot = a.packed_count

\* C7: bit t of entity_masks[e] is set iff the store of t contains e, for
\* every id e and every registered type t.
C7_MaskIffStored ==
    ~aborted
    => \A e \in 0..(TWO_ENTITY_MAX - 1) :
          /\ entity_masks[e] \subseteq DOMAIN components
          /\ \A T \in DOMAIN component_types :
                (component_types[T] \in entity_masks[e])
                    <=> ArrayContains(components[component_types[T]], e)

\* make_entity(prefab) copied a C1 to the new entity.
C7_Witness ==
    /\ ~aborted
    /\ last_call.op = "make_entity_prefab"
    /\ HasBit(last_call.entity, "C1")
    /\ HasBit(last_call.entity, "Active")

\* The call wrote a component of type T to entity e.
Writes(call, e, T) ==
    \/ call.op = "pack" /\ call.entity = e /\ call.type = T
    \/ call.op = "set_active" /\ call.entity = e /\ T = "Active"
    \/ call.op = "copy_entity" /\ call.dst = e
    \/ IsMake(call) /\ call.entity = e

\* C8: unpack<T>(e) is the value most recently packed or copied for e: a pack
\* stores its value (and keeps count when e held a T), a copy stores the
\* source's value, and no other call changes the value of an entity that
\* keeps its T, whatever is removed or destroyed around it.
C8_UnpackLastPacked ==
    [][~aborted'
       => /\ last_call'.op = "pack"
             => LET T == last_call'.type IN
                /\ HasComponent(World', last_call'.entity, T)
                /\ Unpack(World', last_call'.entity, T) = last_call'.component
                /\ last_call'.had
                   => components'[component_types'[T]].packed_count
                        = components[component_types[T]].packed_count
          /\ last_call'.op = "copy_entity"
             => \A T \in DOMAIN component_types :
                   HasComponent(World, last_call'.src, T)
                   => /\ HasComponent(World', last_call'.dst, T)
                      /\ Unpack(World', last_call'.dst, T)
                           = Unpack(World, last_call'.src, T)
          /\ last_call'.op = "make_entity_prefab"
             => \A T \in DOMAIN component_types :
                   HasComponent(World, last_call'.prefab, T)
                   => /\ HasComponent(World', last_call'.entity, T)
                      /\ Unpack(World', last_call'.entity, T)
                           = Unpack(World, last_call'.prefab, T)
          /\ \A T \in DOMAIN component_types :
                LET before == components[component_types[T]]
                    after  == components'[component_types'[T]]
                IN \A e \in DOMAIN before.entity_to_packed :
                      (/\ ArrayContains(after, e)
                       /\ ~Writes(last_call', e, T))
                      => ArrayRead(after, e) = ArrayRead(before, e)
      ]_vars

\* A remove_component moved the last component of the array, of another
\* entity, into the freed slot.
C8_Witness ==
    /\ ~aborted
    /\ last_call.op = "remove_component"
    /\ last_call.had
    /\ \E e \in Live :
          /\ e # last_call.entity
          /\ SlotOf(World, e, last_call.type) = last_call.slot

\* C10: ComponentArray<T>::remove(e) when e holds no T changes nothing: a
\* remove_component of a component e does not hold leaves every store as it
\* was, and destroy_entity leaves every store that e is not in as it was.
C10_RemoveAbsentNoOp ==
    [][~aborted'
       => /\ (last_call'.op = "remove_component" /\ ~last_call'.had)
             => components' = components
          /\ last_call'.op = "destroy_entity"
             => \A t \in DOMAIN components :
                   ~ArrayContains(components[t], last_call'.entity)
                   => components'[t] = components[t]
      ]_vars

\* remove_component ran for an entity without the component, on a store that
\* holds components of other entities.
C10_Witness ==
    /\ ~aborted
    /\ last_call.op = "remove_component"
    /\ ~last_call.had
    /\ components[component_types[last_call.type]].packed_count >= 1

\* C11: remove_component<T>(e) of a component e does not hold is a checked
\* contract violation: the call never returns normally.
C11_RemoveAbsentAborts ==
    (last_call.op = "remove_component" /\ ~last_call.had) => aborted

\* C13: a make fails only when one more entity would exceed TWO_ENTITY_MAX,
\* however many entities were created and destroyed before. The ids counted
\* are the live ones (World::entities, the null entity included) and, to the
\* claim's favour, the destroyed ones that still await collection; a failed
\* call leaves both as they were.
C13_FailsOnlyAtCapacity ==
    IsMake(last_call)
    => IF aborted
       THEN Len(entities) + Cardinality(Pending) + 1 > TWO_ENTITY_MAX
       ELSE Len(entities) <= TWO_ENTITY_MAX

\* The largest element of a set of ids, 0 for the empty set.
MaxId(S) == IF S = {} THEN 0 ELSE CHOOSE x \in S : \A y \in S : y <= x

\* The ids handed out so far: each is live, awaits collection or is pooled.
HandedOut == Range(entities) \cup Pending \cup Range(unused_entities)

\* C14: a make takes its id from the free pool when the pool is not empty
\* (and removes it from the pool); otherwise the id is one greater than the
\* largest id handed out so far, the first being 1: no id is skipped.
C14_RecycledOrNextId ==
    [][(IsMake(last_call') /\ ~aborted')
       => IF unused_entities # << >>
          THEN /\ last_call'.entity = unused_entities[Len(unused_entities)]
               /\ unused_entities'
                    = SubSeq(unused_entities, 1, Len(unused_entities) - 1)
          ELSE last_call'.entity = MaxId(HandedOut) + 1
      ]_vars

\* C16: the null entity never holds a component: its mask has no bit and no
\* store has a slot for it, whatever calls were made.
C16_NullEntityEmpty ==
    /\ entity_masks[NullEntity] = {}
    /\ \A t \in DOMAIN components : ~ArrayContains(components[t], NullEntity)

\* Entity e matches view<Cs...>(include_inactive), by its mask.
Matches(e, Cs, include_inactive) ==
    /\ e \in Live
    /\ \A i \in 1..Len(Cs) : HasBit(e, Cs[i])
    /\ include_inactive \/ HasBit(e, "Active")

C12_HasUnregisteredFalse ==
    [][(last_call'.op = "has_component"
        /\ last_call'.type \notin DOMAIN component_types)
       => /\ ~aborted'
          /\ last_call'.result = FALSE
          /\ component_types' = component_types
          /\ component_type_index' = component_type_index
          /\ components' = components
          /\ entity_masks' = entity_masks
          /\ World' = World
      ]_vars

\* has_component<C1> was asked of a live, active entity before any C1 was
\* registered, in a world that has registered Active.
C12_Witness ==
    /\ last_call.op = "has_component"
    /\ last_call.type = "C1"
    /\ "C1" \notin DOMAIN component_types
    /\ last_call.entity \in Live
    /\ HasBit(last_call.entity, "Active")
    /\ ~last_call.result

\* C15: one type more than TWO_COMPONENT_MAX is fatal: a pack or a view that
\* registers a type when component_type_index (index, before the call) is at
\* the limit aborts; it does not return with the type registered.
C15_TypeLimitFatal ==
    (/\ last_call.op \in {"pack", "view"}
     /\ last_call.index = TWO_COMPONENT_MAX
     /\ component_type_index > TWO_COMPONENT_MAX)
    => aborted

\* C18: once view_one<Cs...>() has returned e, every later call of it returns
\* e again for as long as e was not destroyed, deactivated or stripped of a
\* component, whatever was done to other entities.
C18_ViewOneStable ==
    [][(/\ last_call'.op = "view_one"
        /\ one_seen # << >>
        /\ one_seen[1].Cs = last_call'.Cs
        /\ one_seen[1].include_inactive = last_call'.include_inactive)
       => /\ ~aborted'
          /\ last_call'.result = <<one_seen[1].entity>>
      ]_vars

\* C19: make_system_before<Before, T>() with a Before in the world puts the
\* new system into systems() right ahead of the first system of type Before,
\* the other systems keeping their order: systems() is the old list with the
\* new system inserted at the position of that Before.
C19_InsertedBeforeFirst ==
    [][(/\ last_call'.op = "make_system_before"
        /\ ~aborted'
        /\ \E i \in 1..Len(active_systems) :
              system_objects[active_systems[i]].type = last_call'.before)
       => LET first == CHOOSE i \in 1..Len(active_systems) :
                          /\ system_objects[active_systems[i]].type
                               = last_call'.before
                          /\ \A j \in 1..(i - 1) :
                                system_objects[active_systems[j]].type
                                  # last_call'.before
          IN active_systems'
               = InsertAt(active_systems, first - 1, last_call'.system)
      ]_vars

\* C20: make_system_before<Before, T>() with no Before in the world appends
\* the new system to systems(), and get_system<T>() then finds a system.
C20_AppendedWhenAbsent ==
    [][(/\ last_call'.op = "make_system_before"
        /\ ~aborted'
        /\ \A i \in 1..Len(active_systems) :
              system_objects[active_systems[i]].type # last_call'.before)
       => /\ active_systems' = Append(active_systems, last_call'.system)
          /\ GetSystem(World', last_call'.type) # nullptr
      ]_vars

\* The systems of type T in a list of pointers.
SystemsOfType(systems, objects, T) ==
    {i \in 1..Len(systems) : objects[systems[i]].type = T}

\* C21: destroy_system(s) for an s in the world calls s's unload once and
\* removes s and the type entry at its position, the other systems keeping
\* their order, and when no other system of s's type is left get_system of
\* that type returns nullptr; for an s not in the world nothing is unloaded
\* or removed.
C21_DestroySystemRemovesOne ==
    [][(last_call'.op = "destroy_system" /\ ~aborted')
       => LET s   == last_call'.system
              pos == IndexOf(active_systems, s)
          IN IF pos # 0
             THEN /\ system_objects'[s].unloads = system_objects[s].unloads + 1
                  /\ \A p \in DOMAIN system_objects :
                        p # s => system_objects'[p] = system_objects[p]
                  /\ active_systems' = EraseAt(active_systems, pos - 1)
                  /\ active_system_types' = EraseAt(active_system_types, pos - 1)
                  /\ SystemsOfType(active_systems', system_objects',
                                   system_objects[s].type) = {}
                     => GetSystem(World', system_objects[s].type) = nullptr
             ELSE /\ system_objects' = system_objects
                  /\ active_systems' = active_systems
                  /\ active_system_types' = active_system_types
      ]_vars

\* C22: every system in systems() has had its load hook called exactly once
\* (when it was added) and its unload hook not yet; a system that was removed
\* had its unload hook called exactly once.
C22_LoadedOnceWhenAdded ==
    /\ \A i \in 1..Len(active_systems) :
          /\ system_objects[active_systems[i]].loads = 1
          /\ system_objects[active_systems[i]].unloads = 0
    /\ \A p \in DOMAIN system_objects :
          system_objects[p].deleted => system_objects[p].unloads = 1

\* C30: active_systems and active_system_types have the same length, entry i
\* of the type list is the type of the system at position i, and
\* get_system<T>() returns a system of type T, or nullptr when the world has
\* none.
C30_SystemTypesAligned ==
    /\ Len(active_systems) = Len(active_system_types)
    /\ \A i \in 1..Len(active_systems) :
          active_system_types[i] = system_objects[active_systems[i]].type
    /\ \A T \in SystemTypes :
          IF SystemsOfType(active_systems, system_objects, T) = {}
          THEN GetSystem(World, T) = nullptr
          ELSE /\ GetSystem(World, T) # nullptr
               /\ system_objects[GetSystem(World, T)].type = T

\* C25: emit calls the handlers bound to the event type in the order they
\* were bound and stops at the first one that returns true, so that handlers
\* bound later are not called; with no handler bound it calls nothing; it
\* changes no binding.
C25_EmitStopsAtFirstHandled ==
    [][last_call'.op = "emit"
       => LET T == last_call'.type
              bound == IF T \in DOMAIN event_buses
                       THEN event_buses[T] ELSE << >>
              n == Len(handler_calls')
          IN /\ event_buses' = event_buses
             /\ n <= Len(bound)
             /\ handler_calls' = SubSeq(bound, 1, n)
             /\ \A i \in 1..(n - 1) : ~bound[i].returns
             /\ n < Len(bound) => bound[n].returns
             /\ bound # << >> => n >= 1
      ]_vars

\* An emit stopped at a handler that returned true with a handler bound
\* behind it.
C25_Witness ==
    /\ last_call.op = "emit"
    /\ last_call.type \in DOMAIN event_buses
    /\ Len(handler_calls) = 2
    /\ Len(event_buses[last_call.type]) = 3
    /\ handler_calls[2].returns

\* The hooks run() calls on the systems of a list, in list order.
HookOnEach(hook, systems) ==
    [i \in 1..Len(systems) |-> [hook |-> hook, system |-> systems[i]]]

\* A call of run() on a system, or its collect.
OnSystemOrCollect(call) == call.hook \in {"update", "draw", "collect"}

\* The frame has just ended: its collect was the last thing run() did.
FrameEnded ==
    /\ frames > 0
    /\ pc = "pump"
    /\ frame_trace # << >>

\* C23: in every frame update runs on every system in list order, then draw
\* on every system in list order, then collect_unused_entities() once, and
\* nothing of the frame after it.
C23_UpdateDrawCollect ==
    FrameEnded
    => SelectSeq(frame_trace, OnSystemOrCollect)
          = HookOnEach("update", active_systems)
            \o HookOnEach("draw", active_systems)
            \o <<[hook |-> "collect"]>>

\* C23, as the loop is: in every frame World::update(dt) runs once, then
\* draw on every system in list order, then collect_unused_entities() once,
\* and nothing of the frame after it; the loop calls update on no system.
C23_WorldUpdateDrawCollect ==
    /\ pc = "update" => frame_trace = << >>
    /\ pc = "draw"
       => frame_trace = <<[hook |-> "World::update"]>>
                        \o HookOnEach("draw",
                                      SubSeq(active_systems, 1, draw_index))
    /\ FrameEnded
       => frame_trace = <<[hook |-> "World::update"]>>
                        \o HookOnEach("draw", active_systems)
                        \o <<[hook |-> "collect"]>>

\* A frame with three systems has ended and its collect recycled an id.
C23_Witness ==
    /\ FrameEnded
    /\ Len(active_systems) = 3
    /\ unused_entities # << >>

\* In world w, e is a live entity whose mask satisfies view<Cs...>.
MatchesIn(w, e, Cs, include_inactive) ==
    /\ e \in Range(w.entities)
    /\ \A i \in 1..Len(Cs) : HasComponent(w, e, Cs[i])
    /\ include_inactive \/ HasComponent(w, e, "Active")

\* C24: after copy_entity(dst, src), dst holds every component of src with
\* src's value, keeps the components only it had, src is unchanged, mask(dst)
\* is the union of its old mask and mask(src), and a view queried next
\* returns dst when dst's mask satisfies it.
C24_CopyThenViewed ==
    [][/\ (last_call'.op = "copy_entity" /\ ~aborted')
          => LET dst == last_call'.dst
                 src == last_call'.src
             IN /\ \A T \in DOMAIN component_types :
                      /\ HasBit(src, T)
                         => /\ HasComponent(World', dst, T)
                            /\ Unpack(World', dst, T) = Unpack(World, src, T)
                            /\ Unpack(World', src, T) = Unpack(World, src, T)
                      /\ (HasBit(dst, T) /\ ~HasBit(src, T))
                         => /\ HasComponent(World', dst, T)
                            /\ Unpack(World', dst, T) = Unpack(World, dst, T)
                /\ src # dst => entity_masks'[src] = entity_masks[src]
                /\ entity_masks'[dst]
                      = entity_masks[dst] \cup entity_masks[src]
       /\ (last_call.op = "copy_entity" /\ last_call'.op = "view" /\ ~aborted')
          => (MatchesIn(World', last_call.dst, last_call'.Cs,
                        last_call'.include_inactive)
              => last_call.dst \in Range(last_call'.result))
      ]_vars

\* C26: no view and no collect_unused_entities fails the assertion
\* rem != vec.end() of apply_diffs_to_cache: every Remove diff applied finds
\* its entity in the cache's list, whatever public calls on live entities
\* came before.
C26_RemoveFindsEntity ==
    ~(/\ aborted
      /\ last_call.op \in {"view", "collect_unused_entities"})

\* C27: no cache's diff queue holds two entries with the same entity and
\* operation.
C27_NoDuplicateDiffs ==
    \A k \in DOMAIN view_cache :
       \A i, j \in 1..Len(view_cache[k].diffs) :
          i # j => view_cache[k].diffs[i] # view_cache[k].diffs[j]

\* The diffs of a queue that are about entity e, in order.
RECURSIVE DiffsOf(_, _)
DiffsOf(diffs, e) ==
    IF diffs = << >> THEN << >>
    ELSE IF Head(diffs).entity = e
         THEN <<Head(diffs).op>> \o DiffsOf(Tail(diffs), e)
         ELSE DiffsOf(Tail(diffs), e)

\* The membership of e in the cache k, which did not hold e when it was last
\* queried, has toggled Add, Remove, Add since.
ToggledAddRemoveAdd(k, e) ==
    /\ k \in DOMAIN toggles
    /\ toggles[k][e] = <<"Add", "Remove", "Add">>
    /\ e \notin view_cache[k].lookup

\* The number of times e is in the list of cache k once its queue is applied.
TimesListed(k, e, assertions) ==
    LET r == ApplyDiffsToCache(view_cache[k], assertions) IN
    Cardinality({i \in 1..Len(r.cache.entities) : r.cache.entities[i] = e})

\* C28: when an entity's membership in an existing cache toggles Add, Remove,
\* Add before the cache is next queried, the cache's queue holds the three
\* diffs Add, Remove, Add of that entity, and applying them leaves the entity
\* in the list exactly once.
C28_ThreeDiffsQueued ==
    \A k \in DOMAIN view_cache : \A e \in 0..(TWO_ENTITY_MAX - 1) :
       ToggledAddRemoveAdd(k, e)
       => /\ DiffsOf(view_cache[k].diffs, e) = <<"Add", "Remove", "Add">>
          /\ \A assertions \in BOOLEAN : TimesListed(k, e, assertions) = 1

\* C28, as the code queues: after the same toggles the cache's queue holds
\* one diff of that entity, an Add, and applying the queue leaves the entity
\* in the list exactly once.
C28_OneAddQueued ==
    \A k \in DOMAIN view_cache : \A e \in 0..(TWO_ENTITY_MAX - 1) :
       ToggledAddRemoveAdd(k, e)
       => /\ DiffsOf(view_cache[k].diffs, e) = <<"Add">>
          /\ \A assertions \in BOOLEAN : TimesListed(k, e, assertions) = 1

\* pack, remove_component, pack of the component a cache requires have
\* toggled an entity's membership Add, Remove, Add.
C28_Witness ==
    /\ last_call.op = "pack"
    /\ ~last_call.had
    /\ \E k \in DOMAIN view_cache :
          /\ component_types[last_call.type] \in k
          /\ ToggledAddRemoveAdd(k, last_call.entity)

\* s is the front of t.
IsPrefix(s, t) == Len(s) <= Len(t) /\ SubSeq(t, 1, Len(s)) = s

\* C29: pack, remove_component, set_active, copy_entity and destroy_entity
\* change no cache's entity list or membership set, they only append to diff
\* queues; a cache's list changes only in a view() of its own mask or in
\* collect_unused_entities().
C29_ListsChangeOnlyWhenQueried ==
    [][~aborted'
       => /\ last_call'.op \in {"pack", "remove_component", "set_active",
                                "copy_entity", "destroy_entity"}
             => /\ DOMAIN view_cache' = DOMAIN view_cache
                /\ \A k \in DOMAIN view_cache :
                      /\ view_cache'[k].entities = view_cache[k].entities
                      /\ view_cache'[k].lookup = view_cache[k].lookup
                      /\ IsPrefix(view_cache[k].diffs, view_cache'[k].diffs)
          /\ last_call'.op \notin {"view", "collect_unused_entities"}
             => \A k \in DOMAIN view_cache :
                   /\ k \in DOMAIN view_cache'
                   /\ view_cache'[k].entities = view_cache[k].entities
                   /\ view_cache'[k].lookup = view_cache[k].lookup
          /\ last_call'.op = "view"
             => \A k \in DOMAIN view_cache :
                   k # ViewMask(World', last_call'.Cs,
                                last_call'.include_inactive)
                   => /\ k \in DOMAIN view_cache'
                      /\ view_cache'[k] = view_cache[k]
      ]_vars

\* A remove_component or set_active(false) has queued a Remove for an entity
\* that a cache still lists.
C29_Witness ==
    /\ last_call.op \in {"remove_component", "set_active"}
    /\ ~aborted
    /\ \E k \in DOMAIN view_cache :
          /\ last_call.entity \in Range(view_cache[k].entities)
          /\ last_call.entity \in view_cache[k].lookup
          /\ Diff(last_call.entity, "Remove") \in Range(view_cache[k].diffs)

\* A sequence without a repeated element.
NoDuplicate(s) == \A i, j \in 1..Len(s) : i # j => s[i] # s[j]

\* C31: live ids are unique. The id a make_entity or make_inactive_entity
\* returns is not 0, is not awaiting collection and is in the live list once
\* (it was not live before); the live list has no duplicate, and the free
\* pool has none and shares no id with the live list, destroy_entity being
\* called on live entities only.
C31_LiveIdsUnique ==
    /\ NoDuplicate(entities)
    /\ NoDuplicate(unused_entities)
    /\ Range(unused_entities) \cap Range(entities) = {}
    /\ (IsMake(last_call) /\ ~aborted)
       => /\ last_call.entity # NullEntity
          /\ last_call.entity \notin Pending
          /\ last_call.entity \notin Range(unused_entities)
          /\ Cardinality({i \in 1..Len(entities) :
                             entities[i] = last_call.entity}) = 1

\* A make returned a recycled id while another entity is live.
C31_Witness ==
    /\ IsMake(last_call)
    /\ ~aborted
    /\ last_call.entity + 1 < alive_count
    /\ Len(entities) >= 3

\* The component types of which entity e has a value stored.
Stored(e) ==
    {T \in DOMAIN component_types :
        ArrayContains(components[component_types[T]], e)}

\* C32: the entity make_inactive_entity returns holds no component and the
\* entity make_entity() returns holds exactly Active, its id fresh or
\* recycled: no mask bit and no stored value of the id's previous owner is
\* on it (no call targets an id that is not live).
C32_NewEntityIsClean ==
    ~aborted
    => /\ last_call.op = "make_inactive_entity"
          => /\ entity_masks[last_call.entity] = {}
             /\ Stored(last_call.entity) = {}
       /\ last_call.op = "make_entity"
          => /\ entity_masks[last_call.entity] = {component_types["Active"]}
             /\ Stored(last_call.entity) = {"Active"}

\* A make returned a recycled id whose previous owner held a C1: C1 is
\* registered and no live entity holds one.
C32_Witness ==
    /\ last_call.op \in {"make_entity", "make_inactive_entity"}
    /\ ~aborted
    /\ last_call.entity + 1 < alive_count
    /\ "C1" \in DOMAIN component_types
    /\ \A e \in Live : ~HasBit(e, "C1")
    /\ steps = 5

\* C33: view<Cs...>(true) returns exactly the live entities whose mask holds
\* every type of Cs, active or not, at every query; for an empty Cs that
\* includes the entities make_inactive_entity made after the view was first
\* queried. Stated over the live entities other than the null entity.
C33_InactiveViewExact ==
    (last_call.op = "view" /\ last_call.include_inactive /\ ~aborted)
    => (Range(last_call.result) \cap Live) \ {NullEntity}
          = {e \in Live \ {NullEntity} : Matches(e, last_call.Cs, TRUE)}

\* C34: when collect_unused_entities() returns, the pending-destruction list
\* is empty, every id destroyed since the collect before is in the free pool
\* once, and every cache that held such an entity when it was destroyed has
\* an empty queue and does not list it; a collect right after a collect
\* changes nothing.
C34_CollectFlushesAndFrees ==
    [][(last_call'.op = "collect_unused_entities" /\ ~aborted')
       => /\ destroyed_entities' = << >>
          /\ \A i \in 1..Len(destroyed_entities) :
                LET d == destroyed_entities[i] IN
                /\ Cardinality({j \in 1..Len(unused_entities') :
                                   unused_entities'[j] = d.entity}) = 1
                /\ \A k \in d.caches :
                      /\ view_cache'[k].diffs = << >>
                      /\ d.entity \notin Range(view_cache'[k].entities)
                      /\ d.entity \notin view_cache'[k].lookup
          /\ last_call.op = "collect_unused_entities"
             => UNCHANGED worldvars
      ]_vars

\* A collect has freed an id and left a cache with entities listed and an
\* empty queue.
C34_Witness ==
    /\ last_call.op = "collect_unused_entities"
    /\ ~aborted
    /\ destroyed_entities = << >>
    /\ unused_entities # << >>
    /\ \E k \in DOMAIN view_cache :
          /\ view_cache[k].entities # << >>
          /\ view_cache[k].diffs = << >>

\* C35: in every world of the process, the bit a default view() adds as the
\* active filter is the id under which Active is registered in that world,
\* in whatever order each world first used its component types.
C35_ActiveFilterIsActiveId ==
    (last_call.op = "view" /\ ~last_call.include_inactive /\ ~aborted)
    => /\ "Active" \in DOMAIN component_types
       /\ active_component_t[last_call.Cs] = component_types["Active"]

====
